---- MODULE Spec2Model ----
(***************************************************************************)
(* Model of the fuel-price aggregation pipeline of E4-python_dashboard:    *)
(* main.py constructs a DataFrameHolder (load_csv_file), calls             *)
(* process_data (_data_cleaning, then _compute_new_dataframe) and then     *)
(* save_processed_dataframe.                                               *)
(*                                                                         *)
(* Text is modelled as a sequence of one-character strings, so that the    *)
(* key construction (string concatenation), the geometry decoding          *)
(* (str.split and float) and the key ordering of groupby are computed,     *)
(* not assumed.  Numbers are exact rationals [n, d] in lowest terms; the   *)
(* rounding of binary floating point is not modelled.                      *)
(***************************************************************************)
EXTENDS Integers, Sequences, FiniteSets, TLC

\* Largest number of data rows of the input file.
MaxRows == 3

-----------------------------------------------------------------------------
(* Cells of a pandas table: a missing value, a str, or a float.            *)

NaN == [t |-> "nan"]
Str(s) == [t |-> "str", v |-> s]
Float(q) == [t |-> "float", v |-> q]

isna(c) == c.t = "nan"
notna(c) == c.t # "nan"

-----------------------------------------------------------------------------
(* Exact rational arithmetic standing for Python floats.                   *)

RECURSIVE GCD(_, _)
GCD(a, b) == IF b = 0 THEN a ELSE GCD(b, a % b)

Abs(a) == IF a < 0 THEN -a ELSE a

\* n/d in lowest terms, d > 0.
Rat(n, d) ==
    LET g == GCD(Abs(n), d)
    IN  [n |-> n \div g, d |-> d \div g]

RatAdd(p, q) == Rat(p.n * q.d + q.n * p.d, p.d * q.d)

\* p / k for an integer k > 0.
RatDivInt(p, k) == Rat(p.n, p.d * k)

\* Python's sum(list), starting from 0.
RECURSIVE RatSum(_)
RatSum(s) == IF s = <<>> THEN Rat(0, 1) ELSE RatAdd(Head(s), RatSum(Tail(s)))

Range(s) == {s[i] : i \in DOMAIN s}

\* Then(value) for the value of v, which is computed once: one statement
\* followed by the rest of the method.
Bind(v, Then(_)) == CHOOSE r \in {Then(x) : x \in {v}} : TRUE

-----------------------------------------------------------------------------
(* Python's str.split(', ') and float() on text.                           *)

Digits ==
    "0" :> 0 @@ "1" :> 1 @@ "2" :> 2 @@ "3" :> 3 @@ "4" :> 4 @@
    "5" :> 5 @@ "6" :> 6 @@ "7" :> 7 @@ "8" :> 8 @@ "9" :> 9
IsDigit(c) == c \in DOMAIN Digits
DigitVal(c) == Digits[c]

\* The code points that order the characters of the modelled alphabet
\* (Python compares str by code point).
Ord(c) ==
    CASE c = " " -> 32
      [] c = "," -> 44
      [] c = "-" -> 45
      [] c = "." -> 46
      [] IsDigit(c) -> 48 + DigitVal(c)
      [] c = "A" -> 65
      [] c = "B" -> 66
      [] c = "D" -> 68
      [] c = "E" -> 69
      [] c = "R" -> 82
      [] c = "S" -> 83
      [] c = "x" -> 120
      [] OTHER -> 127

\* Python's a < b on str.
RECURSIVE StrLess(_, _)
StrLess(a, b) ==
    IF b = <<>> THEN FALSE
    ELSE IF a = <<>> THEN TRUE
    ELSE IF Head(a) = Head(b) THEN StrLess(Tail(a), Tail(b))
    ELSE Ord(Head(a)) < Ord(Head(b))

\* x.split(', '): the pieces of x between the non-overlapping occurrences of
\* the separator, scanned from the left.
RECURSIVE split(_)
split(x) ==
    LET hits == {i \in 1..(Len(x) - 1) : x[i] = "," /\ x[i + 1] = " "}
    IN  IF hits = {} THEN <<x>>
        ELSE LET i == CHOOSE j \in hits : \A k \in hits : j <= k
             IN  <<SubSeq(x, 1, i - 1)>> \o split(SubSeq(x, i + 2, Len(x)))

\* str.strip() of blanks, which float() applies to its argument.
RECURSIVE lstrip(_)
lstrip(s) == IF s # <<>> /\ Head(s) = " " THEN lstrip(Tail(s)) ELSE s
RECURSIVE rstrip(_)
rstrip(s) ==
    IF s # <<>> /\ s[Len(s)] = " " THEN rstrip(SubSeq(s, 1, Len(s) - 1)) ELSE s
strip(s) == rstrip(lstrip(s))

\* The value of a string of digits read as a natural number.
RECURSIVE DigitsVal(_)
DigitsVal(s) ==
    IF s = <<>> THEN 0
    ELSE 10 * DigitsVal(SubSeq(s, 1, Len(s) - 1)) + DigitVal(s[Len(s)])

RECURSIVE Pow10(_)
Pow10(k) == IF k = 0 THEN 1 ELSE 10 * Pow10(k - 1)

AllDigits(s) == \A i \in DOMAIN s : IsDigit(s[i])

\* float(text) for decimal literals [-]digits[.digits] and [-].digits;
\* ok = FALSE stands for ValueError.  Exponents, inf, nan and underscores are
\* outside the modelled alphabet.
float(text) ==
    LET s == strip(text)
        neg == s # <<>> /\ Head(s) = "-"
        u == IF neg THEN Tail(s) ELSE s
        dots == {i \in DOMAIN u : u[i] = "."}
        p == IF dots = {} THEN Len(u) + 1 ELSE CHOOSE i \in dots : TRUE
        ip == SubSeq(u, 1, p - 1)
        fp == SubSeq(u, p + 1, Len(u))
        wellformed ==
            /\ Cardinality(dots) <= 1
            /\ AllDigits(ip) /\ AllDigits(fp)
            /\ Len(ip) + Len(fp) > 0
        mag == DigitsVal(ip) * Pow10(Len(fp)) + DigitsVal(fp)
    IN  IF wellformed
        THEN [ok |-> TRUE,
              v |-> Rat(IF neg THEN -mag ELSE mag, Pow10(Len(fp)))]
        ELSE [ok |-> FALSE]

-----------------------------------------------------------------------------
(* The tables.  A table is [columns, rows]: the column names in order and   *)
(* the rows, each a function from the column names to cells.                *)

None == [t |-> "None"]
List(l) == [t |-> "list", v |-> l]

\* self.price_columns
price_columns ==
    <<"Gazole_prix", "SP98_prix", "SP95_prix", "E85_prix", "E10_prix",
      "GPLc_prix">>

\* useful_columns of _data_cleaning ('Région', 'Département' and
\* 'Code postal' are written Region, Departement and Code_postal).
useful_columns ==
    <<"Region", "Departement", "Code_postal", "Ville", "geom">> \o price_columns

\* The header of the downloaded file: the useful columns and one more.
raw_columns == <<"Adresse">> \o useful_columns

\* The path load_csv_file resolves: current_dir.parent / 'fetcher' / file_name.
csv_path == "fetcher/prix-des-carburants-en-france-flux-instantane-v2.csv"

-----------------------------------------------------------------------------
(* pd.read_csv(csv_path, dtype={'Code postal': 'str'}, delimiter=';')       *)

\* An empty field is a missing value (the other NA spellings of pandas are
\* outside the modelled alphabet).
IsNAField(f) == f = <<>>

\* A column without a declared dtype is numeric when every field present
\* reads as a number, and holds str otherwise.
InfersFloat(records, c) ==
    \A i \in DOMAIN records :
        IsNAField(records[i][c]) \/ float(records[i][c]).ok

\* Text without its leading zeros: what is left of a postal code that was
\* read as a number.
RECURSIVE lstrip_zeros(_)
lstrip_zeros(s) ==
    IF Len(s) > 1 /\ Head(s) = "0" THEN lstrip_zeros(Tail(s)) ELSE s

\* One field read with the leading zeros of a str field lost.
read_cell_zeros_lost(f, numeric) ==
    IF IsNAField(f) THEN NaN
    ELSE IF numeric THEN Float(float(f).v)
    ELSE Str(lstrip_zeros(f))

\* One field read into a column that is numeric or not.
read_cell(f, numeric) ==
    IF IsNAField(f) THEN NaN
    ELSE IF numeric THEN Float(float(f).v)
    ELSE Str(f)

\* The outcome of read_csv on the file: a table or the exception raised.
read_csv(f) ==
    CASE f.kind = "absent" -> [exc |-> "FileNotFoundError", df |-> None]
      [] f.kind = "zero_bytes" -> [exc |-> "EmptyDataError", df |-> None]
      [] f.kind = "unreadable" -> [exc |-> "Exception", df |-> None]
      [] OTHER ->
            Bind({c \in Range(f.header) \ {"Code_postal"} :
                     InfersFloat(f.records, c)},
                 LAMBDA numeric :
                   [exc |-> "none",
                    df |-> [columns |-> f.header,
                            rows |-> [i \in DOMAIN f.records |->
                                        [c \in Range(f.header) |->
                                            read_cell(f.records[i][c],
                                                      c \in numeric)]]]])

\* load_csv_file with FileNotFoundError left to the broad handler.
load_csv_file_broad_handler(f) ==
    LET r == read_csv(f)
    IN  CASE r.exc = "none" -> [ret |-> r.df, box |-> <<>>]
          [] r.exc = "EmptyDataError" ->
                [ret |-> None,
                 box |-> <<[title |-> "Error", what |-> "is empty",
                            path |-> csv_path]>>]
          [] OTHER ->
                [ret |-> None,
                 box |-> <<[title |-> "Error", what |-> "An error occurred",
                            path |-> ""]>>]

\* load_csv_file: the table, or None after an error box.  The result is
\* [ret, box]: the value returned and the boxes shown.
load_csv_file(f) ==
    LET r == read_csv(f)
    IN  CASE r.exc = "none" -> [ret |-> r.df, box |-> <<>>]
          [] r.exc = "FileNotFoundError" ->
                [ret |-> None,
                 box |-> <<[title |-> "Error", what |-> "was not found",
                            path |-> csv_path]>>]
          [] r.exc = "EmptyDataError" ->
                [ret |-> None,
                 box |-> <<[title |-> "Error", what |-> "is empty",
                            path |-> csv_path]>>]
          [] OTHER ->
                [ret |-> None,
                 box |-> <<[title |-> "Error", what |-> "An error occurred",
                            path |-> ""]>>]

-----------------------------------------------------------------------------
(* _data_cleaning                                                           *)

\* self.data_frame[useful_columns]
project(df) ==
    [columns |-> useful_columns,
     rows |-> [i \in DOMAIN df.rows |->
                 [c \in Range(useful_columns) |-> df.rows[i][c]]]]

\* The key taken to be the city name alone.
cp_ville_name_only(cp, ville) == ville

\* The key with a missing operand taken as the empty text.
cp_ville_missing_as_empty(cp, ville) ==
    Str((IF isna(cp) THEN <<>> ELSE cp.v) \o <<" ">>
            \o (IF isna(ville) THEN <<>> ELSE ville.v))

\* The key without the separator between postal code and city name.
cp_ville_unseparated(cp, ville) ==
    IF isna(cp) \/ isna(ville) THEN NaN ELSE Str(cp.v \o ville.v)

\* One element of data_frame['Code postal'] + ' ' + data_frame['Ville']:
\* missing when either operand is missing.
cp_ville(cp, ville) ==
    IF isna(cp) \/ isna(ville) THEN NaN ELSE Str(cp.v \o <<" ">> \o ville.v)

\* The table with the column cp_ville added.
add_cp_ville(df) ==
    [columns |-> df.columns \o <<"cp_ville">>,
     rows |-> [i \in DOMAIN df.rows |->
                 [c \in Range(df.columns) \cup {"cp_ville"} |->
                     IF c = "cp_ville"
                     THEN cp_ville(df.rows[i]["Code_postal"], df.rows[i]["Ville"])
                     ELSE df.rows[i][c]]]]

\* data_frame.drop(columns=dropped)
drop(df, dropped) ==
    LET kept == SelectSeq(df.columns, LAMBDA c : c \notin dropped)
    IN  [columns |-> kept,
         rows |-> [i \in DOMAIN df.rows |->
                     [c \in Range(kept) |-> df.rows[i][c]]]]

\* No row dropped.
dropna_Region_skipped(df) == df

\* data_frame.dropna(subset=['Région'])
dropna_Region(df) ==
    [columns |-> df.columns,
     rows |-> SelectSeq(df.rows, LAMBDA r : notna(r["Region"]))]

\* The lambda applied to one geom cell:
\* [float(coord) for coord in x.split(', ') if coord].
decode_geom(x) ==
    IF x.t # "str" THEN [exc |-> "AttributeError"]
    ELSE LET pieces == SelectSeq(split(x.v), LAMBDA c : c # <<>>)
         IN  IF \E i \in DOMAIN pieces : ~float(pieces[i]).ok
             THEN [exc |-> "ValueError"]
             ELSE [exc |-> "none",
                   v |-> List([i \in DOMAIN pieces |-> float(pieces[i]).v])]

\* The geom column decoded: [exc, rows].  The rows are visited in order and
\* the first exception of the lambda ends the apply.
apply_decode_geom(df) ==
    Bind([i \in DOMAIN df.rows |-> decode_geom(df.rows[i]["geom"])],
         LAMBDA decoded :
           LET bad == {i \in DOMAIN decoded : decoded[i].exc # "none"}
           IN  IF bad # {}
               THEN [exc |->
                       decoded[CHOOSE i \in bad : \A j \in bad : i <= j].exc]
               ELSE [exc |-> "none",
                     rows |-> [i \in DOMAIN df.rows |->
                                 [df.rows[i] EXCEPT !["geom"] = decoded[i].v]]])

\* _data_cleaning with the held table given up when a column is not found.
data_cleaning_table_lost(df) ==
    IF df = None THEN [df |-> df, exc |-> "TypeError"]
    ELSE IF ~(Range(useful_columns) \subseteq Range(df.columns))
    THEN [df |-> None, exc |-> "KeyError"]
    ELSE
      Bind(project(df), LAMBDA projected :
      Bind(add_cp_ville(projected), LAMBDA keyed :
      Bind(drop(keyed, {"Ville", "Code_postal"}), LAMBDA dropped :
      Bind(dropna_Region(dropped), LAMBDA filtered :
      Bind(apply_decode_geom(filtered), LAMBDA decoded :
        IF decoded.exc # "none"
        THEN [df |-> filtered, exc |-> decoded.exc]
        ELSE [df |-> [columns |-> filtered.columns, rows |-> decoded.rows],
              exc |-> "none"])))))

\* _data_cleaning on self.data_frame: [df, exc], the table it leaves in
\* self.data_frame and the exception it raises ("none" when it returns).
data_cleaning(df) ==
    IF df = None THEN [df |-> df, exc |-> "TypeError"]
    ELSE IF ~(Range(useful_columns) \subseteq Range(df.columns))
    THEN [df |-> df, exc |-> "KeyError"]
    ELSE
      Bind(project(df), LAMBDA projected :
      Bind(add_cp_ville(projected), LAMBDA keyed :
      Bind(drop(keyed, {"Ville", "Code_postal"}), LAMBDA dropped :
      Bind(dropna_Region(dropped), LAMBDA filtered :
      Bind(apply_decode_geom(filtered), LAMBDA decoded :
        IF decoded.exc # "none"
        THEN [df |-> filtered, exc |-> decoded.exc]
        ELSE [df |-> [columns |-> filtered.columns, rows |-> decoded.rows],
              exc |-> "none"])))))

-----------------------------------------------------------------------------
(* _compute_new_dataframe                                                   *)

\* The elements of a set of str in ascending order (groupby sorts its keys).
RECURSIVE SortKeys(_)
SortKeys(S) ==
    IF S = {} THEN <<>>
    ELSE LET m == CHOOSE k \in S : \A o \in S \ {k} : StrLess(k, o)
         IN  <<m>> \o SortKeys(S \ {m})

\* One key per row: the keys not made unique.
group_keys_per_row(df) ==
    LET present == SelectSeq(df.rows, LAMBDA r : notna(r["cp_ville"]))
    IN  [i \in DOMAIN present |-> present[i]["cp_ville"].v]

\* The group keys in the order of their first appearance (sort=False).
RECURSIVE FirstAppearances(_)
FirstAppearances(ks) ==
    IF ks = <<>> THEN <<>>
    ELSE <<Head(ks)>>
            \o FirstAppearances(SelectSeq(Tail(ks), LAMBDA k : k # Head(ks)))
group_keys_unsorted(df) ==
    LET present == SelectSeq(df.rows, LAMBDA r : notna(r["cp_ville"]))
    IN  FirstAppearances([i \in DOMAIN present |-> present[i]["cp_ville"].v])

\* The group keys of groupby('cp_ville'): the values present, missing ones
\* left out, in ascending order.
group_keys(df) ==
    SortKeys({df.rows[i]["cp_ville"].v :
                 i \in {j \in DOMAIN df.rows : notna(df.rows[j]["cp_ville"])}})

\* The rows of one group, in row order.
group(df, k) == SelectSeq(df.rows, LAMBDA r : r["cp_ville"] = Str(k))

\* The value of the first row of the group, present or not.
first_of_first_row(g, c) == g[1][c]

\* GroupBy.last in place of first: the last value present.
last(g, c) ==
    LET present == SelectSeq(g, LAMBDA r : notna(r[c]))
    IN  IF present = <<>> THEN NaN ELSE present[Len(present)][c]

\* GroupBy.first on one column of a group: the first value present.
first(g, c) ==
    LET present == SelectSeq(g, LAMBDA r : notna(r[c]))
    IN  IF present = <<>> THEN NaN ELSE present[1][c]

\* The mean with a missing value counted as a row of the divisor.
mean_over_all_rows(g, c) ==
    LET present == SelectSeq(g, LAMBDA r : notna(r[c]))
        values == [i \in DOMAIN present |-> present[i][c].v]
    IN  IF present = <<>> THEN NaN
        ELSE Float(RatDivInt(RatSum(values), Len(g)))

\* The mean of no value taken to be 0.0.
mean_zero_when_none(g, c) ==
    LET present == SelectSeq(g, LAMBDA r : notna(r[c]))
        values == [i \in DOMAIN present |-> present[i][c].v]
    IN  IF present = <<>> THEN Float(Rat(0, 1))
        ELSE Float(RatDivInt(RatSum(values), Len(values)))

\* GroupBy.mean on one column of a group: the mean of the values present,
\* missing when there is none.
mean(g, c) ==
    LET present == SelectSeq(g, LAMBDA r : notna(r[c]))
        values == [i \in DOMAIN present |-> present[i][c].v]
    IN  IF present = <<>> THEN NaN
        ELSE Float(RatDivInt(RatSum(values), Len(values)))

\* The rows of the group that report the first fuel, as count() would give.
size_count_first_fuel(g) ==
    Len(SelectSeq(g, LAMBDA r : notna(r[price_columns[1]])))

\* GroupBy.size of a group.
size(g) == Len(g)

\* _mean_coords on the geom lists of a group: [exc, Latitude, Longitude].
mean_coords(coords_list) ==
    LET used == SelectSeq(coords_list, LAMBDA coord : coord # <<>>)
        latitudes == [i \in DOMAIN used |-> used[i][1]]
        longitudes == [i \in DOMAIN used |-> used[i][2]]
    IN  IF \E i \in DOMAIN used : Len(used[i]) < 2
        THEN [exc |-> "IndexError"]
        ELSE IF used = <<>> THEN [exc |-> "ZeroDivisionError"]
        ELSE [exc |-> "none",
              Latitude |-> Float(RatDivInt(RatSum(latitudes), Len(latitudes))),
              Longitude |->
                  Float(RatDivInt(RatSum(longitudes), Len(longitudes)))]

\* The geom lists of a group, in row order.
geoms(g) == [i \in DOMAIN g |-> g[i]["geom"].v]

\* groupby('cp_ville')[['Région', 'Département']].first().reset_index()
city_geo_mapping(df) ==
    LET keys == group_keys(df)
    IN  [columns |-> <<"cp_ville", "Region", "Departement">>,
         rows |-> [i \in DOMAIN keys |->
                     [cp_ville |-> Str(keys[i]),
                      Region |-> first(group(df, keys[i]), "Region"),
                      Departement |->
                          first(group(df, keys[i]), "Departement")]]]

\* groupby('cp_ville')[self.price_columns].mean().reset_index()
city_prices_means(df) ==
    LET keys == group_keys(df)
    IN  [columns |-> <<"cp_ville">> \o price_columns,
         rows |-> [i \in DOMAIN keys |->
                     [c \in {"cp_ville"} \cup Range(price_columns) |->
                         IF c = "cp_ville" THEN Str(keys[i])
                         ELSE mean(group(df, keys[i]), c)]]]

\* groupby('cp_ville')['geom'].apply(self._mean_coords)
\*     .reset_index(level=1, drop=True).reset_index()
\* [exc, df]: the groups are visited in key order and the first exception of
\* _mean_coords ends the call; without any group the applied result has a
\* one-level index and reset_index(level=1) raises IndexError.
city_coords_means(df) ==
    LET keys == group_keys(df)
        applied == [i \in DOMAIN keys |-> mean_coords(geoms(group(df, keys[i])))]
        bad == {i \in DOMAIN keys : applied[i].exc # "none"}
    IN  IF keys = <<>> THEN [exc |-> "IndexError"]
        ELSE IF bad # {}
        THEN [exc |-> applied[CHOOSE i \in bad : \A j \in bad : i <= j].exc]
        ELSE [exc |-> "none",
              df |-> [columns |-> <<"cp_ville", "Latitude", "Longitude">>,
                      rows |-> [i \in DOMAIN keys |->
                                  [cp_ville |-> Str(keys[i]),
                                   Latitude |-> applied[i].Latitude,
                                   Longitude |-> applied[i].Longitude]]]]

\* The count column left without its name: the name of the reduction.
city_app_count_unnamed(df) ==
    LET keys == group_keys(df)
    IN  [columns |-> <<"cp_ville", "size">>,
         rows |-> [i \in DOMAIN keys |->
                     [cp_ville |-> Str(keys[i]),
                      size |-> size(group(df, keys[i]))]]]

\* groupby('cp_ville').size().reset_index(name='Apparition')
city_app_count(df) ==
    LET keys == group_keys(df)
    IN  [columns |-> <<"cp_ville", "Apparition">>,
         rows |-> [i \in DOMAIN keys |->
                     [cp_ville |-> Str(keys[i]),
                      Apparition |-> size(group(df, keys[i]))]]]

RECURSIVE Flatten(_)
Flatten(ss) == IF ss = <<>> THEN <<>> ELSE Head(ss) \o Flatten(Tail(ss))

\* merge without the key: every row of the left with every row of the right.
merge_cross(left, right) ==
    LET joined(l) ==
            [j \in DOMAIN right.rows |->
                [c \in Range(left.columns) \cup Range(right.columns) |->
                    IF c \in Range(left.columns) THEN l[c]
                    ELSE right.rows[j][c]]]
    IN  [columns |->
             left.columns \o SelectSeq(right.columns, LAMBDA c : c # "cp_ville"),
         rows |-> Flatten([i \in DOMAIN left.rows |-> joined(left.rows[i])])]

\* left.merge(right, on='cp_ville'): the inner join, in the order of the
\* left rows.
merge(left, right) ==
    LET joined(l) ==
            LET hits == SelectSeq(right.rows,
                                  LAMBDA r : r["cp_ville"] = l["cp_ville"])
            IN  [j \in DOMAIN hits |->
                    [c \in Range(left.columns) \cup Range(right.columns) |->
                        IF c \in Range(left.columns) THEN l[c] ELSE hits[j][c]]]
    IN  [columns |->
             left.columns \o SelectSeq(right.columns, LAMBDA c : c # "cp_ville"),
         rows |-> Flatten([i \in DOMAIN left.rows |-> joined(left.rows[i])])]

\* _compute_new_dataframe on self.data_frame: [df, exc].
compute_new_dataframe(df) ==
    Bind(city_geo_mapping(df), LAMBDA geo :
    Bind(city_prices_means(df), LAMBDA prices :
    Bind(city_coords_means(df), LAMBDA coords :
      IF coords.exc # "none" THEN [df |-> df, exc |-> coords.exc]
      ELSE
        Bind(city_app_count(df), LAMBDA count :
        Bind(merge(geo, prices), LAMBDA with_prices :
        Bind(merge(with_prices, coords.df), LAMBDA with_coords :
          [df |-> merge(with_coords, count), exc |-> "none"]))))))

\* process_data on self.data_frame: [df, exc].
process_data(df) ==
    Bind(data_cleaning(df), LAMBDA cleaned :
      IF cleaned.exc # "none" THEN cleaned
      ELSE compute_new_dataframe(cleaned.df))

-----------------------------------------------------------------------------
(* save_processed_dataframe                                                 *)

\* data_frame.to_csv(file_path, index=False): the header and one record per
\* row, a missing cell written as the empty field.  The digits written for a
\* float are not modelled: a cell present is kept as its value.
to_csv(df) ==
    [header |-> df.columns,
     records |-> [i \in DOMAIN df.rows |->
                    [c \in Range(df.columns) |->
                        LET cell == df.rows[i][c]
                        IN  IF c # "Apparition" /\ isna(cell)
                            THEN <<>> ELSE cell]]]

-----------------------------------------------------------------------------
(* The input files.                                                         *)

t_R == <<"R">>
t_S == <<"S">>
t_D == <<"D">>
t_E == <<"E">>
\* "01" and "1": two postal codes that differ by a leading zero
t_01 == <<"0", "1">>
t_1 == <<"1">>
t_A == <<"A">>
t_B == <<"B">>
t_a == <<"x">>
t_080 == <<"0", ".", "8", "0">>
t_120 == <<"1", ".", "2", "0">>
t_140 == <<"1", ".", "4", "0">>
t_150 == <<"1", ".", "5", "0">>
t_160 == <<"1", ".", "6", "0">>
\* "48.0, 2.0" and "50.0, 4.0": a latitude and a longitude
g_48_2 == <<"4", "8", ".", "0", ",", " ", "2", ".", "0">>
g_50_4 == <<"5", "0", ".", "0", ",", " ", "4", ".", "0">>
\* ", ": two empty components
g_empty == <<",", " ">>
\* "": the field left empty
g_none == <<>>
\* "x, 2.0": a component that is no number
g_bad == <<"x", ",", " ", "2", ".", "0">>
\* "48.0": one component only
g_one == <<"4", "8", ".", "0">>

\* The six price fields of a record, in the order of price_columns.
p_full == <<t_120, t_150, t_140, t_080, t_140, t_080>>
p_some == <<t_140, <<>>, t_160, <<>>, t_150, <<>>>>
p_none == <<<<>>, <<>>, <<>>, <<>>, <<>>, <<>>>>
p_other == <<t_160, t_160, t_160, t_160, t_160, t_160>>

Record(region, cp, ville, geom, prices) ==
    [c \in Range(raw_columns) |->
        CASE c = "Adresse" -> t_a
          [] c = "Region" -> region
          [] c = "Departement" -> IF region = <<>> THEN <<>> ELSE t_D
          [] c = "Code_postal" -> cp
          [] c = "Ville" -> ville
          [] c = "geom" -> geom
          [] OTHER ->
                prices[CHOOSE i \in DOMAIN price_columns : price_columns[i] = c]]

\* The records a file is made of: stations of city "01 A" with every kind of
\* geometry and of price field, one of them under another region and
\* department, stations of the same city name under the postal code "1", one
\* of them without a department, stations without a region, and a station
\* without a city name.
Records ==
    { Record(t_R, t_01, t_A, g_48_2, p_full),
      [Record(t_S, t_01, t_A, g_50_4, p_some) EXCEPT !["Departement"] = t_E],
      Record(t_R, t_01, t_A, g_empty, p_none),
      Record(t_R, t_01, t_A, g_none, p_full),
      Record(t_R, t_01, t_A, g_bad, p_full),
      Record(t_R, t_01, t_A, g_one, p_some),
      [Record(t_R, t_1, t_A, g_48_2, p_some) EXCEPT !["Departement"] = <<>>],
      Record(t_R, t_1, t_A, g_empty, p_full),
      Record(t_R, t_01, <<>>, g_48_2, p_full),
      Record(<<>>, t_01, t_A, g_none, p_other),
      Record(<<>>, t_1, t_B, g_50_4, p_other) }

\* The headers a file may carry besides raw_columns: the useful columns
\* alone, and raw_columns with a required column left out.
Without(columns, c) == SelectSeq(columns, LAMBDA d : d # c)
Headers ==
    { useful_columns,
      Without(raw_columns, "geom"),
      Without(raw_columns, "SP98_prix"),
      Without(raw_columns, "Region"),
      Without(raw_columns, "Code_postal") }

\* The records written under the other headers.
HeaderRecords ==
    { Record(t_R, t_01, t_A, g_48_2, p_full),
      [Record(t_S, t_01, t_A, g_50_4, p_some) EXCEPT !["Departement"] = t_E],
      Record(t_R, t_1, t_A, g_48_2, p_some) }

\* What the fetcher may have left at csv_path: nothing, a file of zero bytes,
\* something that cannot be read, or a header and up to MaxRows records.
Files ==
    {[kind |-> "absent"], [kind |-> "zero_bytes"], [kind |-> "unreadable"]}
    \cup {[kind |-> "csv", header |-> raw_columns, records |-> rs] :
            rs \in UNION {[1..n -> Records] : n \in 0..MaxRows}}
    \cup {[kind |-> "csv", header |-> h,
           records |-> [i \in DOMAIN rs |-> [c \in Range(h) |-> rs[i][c]]]] :
            h \in Headers,
            rs \in UNION {[1..n -> HeaderRecords] : n \in 0..MaxRows}}

-----------------------------------------------------------------------------
(* The run of main.py from the construction of the holder on.               *)

VARIABLES
    file,        \* what is at csv_path
    pc,          \* the statement of main.py reached
    data_frame,  \* self.data_frame
    raised,      \* the exception that ended the script, or "none"
    boxes,       \* the error boxes shown so far
    saved,       \* what is at visualizer/processed_data.csv
    outputs,     \* what the earlier runs of main.py left there, in order
    dashboard    \* the dropdowns of the home page, None before it is served

vars == <<file, pc, data_frame, raised, boxes, saved, outputs, dashboard>>

Init ==
    /\ file \in Files
    /\ pc = "start"
    /\ data_frame = None
    /\ raised = "none"
    /\ boxes = <<>>
    /\ saved = None
    /\ outputs = <<>>
    /\ dashboard = None

\* df_holder = DataFrameHolder(file_name)
Construct ==
    /\ pc = "start"
    /\ \E r \in {load_csv_file(file)} :
           /\ data_frame' = r.ret
           /\ boxes' = boxes \o r.box
    /\ pc' = "constructed"
    /\ UNCHANGED <<file, raised, saved, outputs, dashboard>>

\* df_holder.process_data()
ProcessData ==
    /\ pc = "constructed"
    /\ \E r \in {process_data(data_frame)} :
           /\ data_frame' = r.df
           /\ raised' = r.exc
           /\ pc' = IF r.exc = "none" THEN "processed" ELSE "crashed"
    /\ UNCHANGED <<file, boxes, saved, outputs, dashboard>>

\* save_processed_dataframe with the records appended to the file in place.
Save_appending ==
    /\ pc = "processed"
    /\ \E fs \in {"ok", "mkdir_fails", "to_csv_fails"} :
        IF fs = "mkdir_fails"
        THEN /\ raised' = "OSError"
             /\ pc' = "crashed"
             /\ UNCHANGED <<boxes, saved>>
        ELSE IF fs = "to_csv_fails"
        THEN /\ boxes' = Append(boxes, [title |-> "Error",
                                        what |-> "An error occurred",
                                        path |-> ""])
             /\ pc' = "done"
             /\ UNCHANGED <<raised, saved>>
        ELSE /\ saved' = IF saved = None THEN to_csv(data_frame)
                         ELSE [saved EXCEPT
                                 !.records = @ \o to_csv(data_frame).records]
             /\ pc' = "done"
             /\ UNCHANGED <<raised, boxes>>
    /\ UNCHANGED <<file, data_frame, outputs, dashboard>>

\* save_processed_dataframe with to_csv outside the try.
Save_to_csv_unguarded ==
    /\ pc = "processed"
    /\ \E fs \in {"ok", "mkdir_fails", "to_csv_fails"} :
        IF fs = "mkdir_fails"
        THEN /\ raised' = "OSError"
             /\ pc' = "crashed"
             /\ UNCHANGED <<boxes, saved>>
        ELSE IF fs = "to_csv_fails"
        THEN /\ raised' = "PermissionError"
             /\ pc' = "crashed"
             /\ UNCHANGED <<boxes, saved>>
        ELSE /\ saved' = to_csv(data_frame)
             /\ pc' = "done"
             /\ UNCHANGED <<raised, boxes>>
    /\ UNCHANGED <<file, data_frame, outputs, dashboard>>

\* df_holder.save_processed_dataframe(), with what the file system answers:
\* mkdir is outside the try, to_csv inside it.
Save ==
    /\ pc = "processed"
    /\ \E fs \in {"ok", "mkdir_fails", "to_csv_fails"} :
        IF fs = "mkdir_fails"
        THEN /\ raised' = "OSError"
             /\ pc' = "crashed"
             /\ UNCHANGED <<boxes, saved>>
        ELSE IF fs = "to_csv_fails"
        THEN /\ boxes' = Append(boxes, [title |-> "Error",
                                        what |-> "An error occurred",
                                        path |-> ""])
             /\ pc' = "done"
             /\ UNCHANGED <<raised, saved>>
        ELSE /\ saved' = to_csv(data_frame)
             /\ pc' = "done"
             /\ UNCHANGED <<raised, boxes>>
    /\ UNCHANGED <<file, data_frame, outputs, dashboard>>

Next == Construct \/ ProcessData \/ Save

Spec == Init /\ [][Next]_vars

\* Largest number of runs of main.py on the same input file.
MaxRuns == 2

\* main.py started again once a run has ended: a new process and a new
\* holder, the input file and the output file as the last run left them.
Rerun ==
    /\ pc \in {"done", "crashed"}
    /\ Len(outputs) + 1 < MaxRuns
    /\ outputs' = Append(outputs, saved)
    /\ pc' = "start"
    /\ data_frame' = None
    /\ raised' = "none"
    /\ boxes' = <<>>
    /\ UNCHANGED <<file, saved, dashboard>>

NextRerun == Next \/ Rerun

\* The runs of main.py one after the other on an input file left unmodified.
SpecRerun == Init /\ [][NextRerun]_vars

-----------------------------------------------------------------------------
(* The notions the properties are stated in, read off the input file and    *)
(* the table held after process_data.                                       *)

\* The file carries every required column.
HasSchema(f) ==
    f.kind = "csv" /\ Range(useful_columns) \subseteq Range(f.header)

\* The station records of the input file: the records of a file that carries
\* every required column.
InputRecords == IF HasSchema(file) THEN file.records ELSE <<>>

HasRegion(rec) == rec["Region"] # <<>>
HasCityKey(rec) == rec["Code_postal"] # <<>> /\ rec["Ville"] # <<>>

\* postal_code + " " + city_name
CityKey(rec) == rec["Code_postal"] \o <<" ">> \o rec["Ville"]

\* The stations of a city: the records with a region that carry its key.
StationsOf(key) ==
    {i \in DOMAIN InputRecords :
        /\ HasRegion(InputRecords[i])
        /\ HasCityKey(InputRecords[i])
        /\ CityKey(InputRecords[i]) = key}

\* The cities of the input: the keys of the records with a region.
Cities ==
    {CityKey(InputRecords[i]) :
        i \in {j \in DOMAIN InputRecords :
                  HasRegion(InputRecords[j]) /\ HasCityKey(InputRecords[j])}}

\* process_data has returned: data_frame is the output table.
Processed == pc \in {"processed", "done"} \/ raised = "OSError"

\* process_data has been called: it returned or it raised.
Called == pc \notin {"start", "constructed"}

OutputRows == data_frame.rows

\* The indices of the output rows of a key.
OutputRowsOf(key) ==
    {a \in DOMAIN OutputRows : OutputRows[a]["cp_ville"] = Str(key)}

\* The number a field of digits stands for.
NumberOf(field) == float(field).v

\* The sum of the numbers in one column of a set of records.
RECURSIVE SumOver(_, _)
SumOver(S, column) ==
    IF S = {} THEN Rat(0, 1)
    ELSE LET i == CHOOSE j \in S : TRUE
         IN  RatAdd(NumberOf(InputRecords[i][column]), SumOver(S \ {i}, column))

\* The stations of a city that report a fuel.
Reporting(key, fuel) ==
    {i \in StationsOf(key) : InputRecords[i][fuel] # <<>>}

\* The arithmetic mean of the prices the stations of a city report for a fuel.
MeanPrice(key, fuel) ==
    RatDivInt(SumOver(Reporting(key, fuel), fuel),
              Cardinality(Reporting(key, fuel)))

Fuels == Range(price_columns)

-----------------------------------------------------------------------------
\* C1: after process_data, each CityKey (cp_ville) appears in the output
\* table at most once.
C1_UniqueCityKey ==
    Processed =>
        \A a, b \in DOMAIN OutputRows :
            OutputRows[a]["cp_ville"] = OutputRows[b]["cp_ville"] => a = b

\* C1 witness: an output of two cities computed from three stations, two of
\* them of the same city.
C1_Witness ==
    /\ Processed
    /\ Len(OutputRows) = 2
    /\ \E key \in Cities : Cardinality(StationsOf(key)) = 2

\* C2: two records with a region, the same city name and different postal
\* codes are aggregated into two different output rows.
C2_SameNameDifferentPostalCode ==
    Processed =>
        \A i, j \in DOMAIN InputRecords :
            LET ri == InputRecords[i]
                rj == InputRecords[j]
            IN  ( /\ HasRegion(ri) /\ HasRegion(rj)
                  /\ HasCityKey(ri) /\ HasCityKey(rj)
                  /\ ri["Ville"] = rj["Ville"]
                  /\ ri["Code_postal"] # rj["Code_postal"] )
                => \E a \in OutputRowsOf(CityKey(ri)) :
                   \E b \in OutputRowsOf(CityKey(rj)) : a # b

\* C2 witness: an output computed from two stations of the same city name
\* under different postal codes.
C2_Witness ==
    /\ Processed
    /\ \E i, j \in DOMAIN InputRecords :
        /\ HasRegion(InputRecords[i]) /\ HasRegion(InputRecords[j])
        /\ HasCityKey(InputRecords[i]) /\ HasCityKey(InputRecords[j])
        /\ InputRecords[i]["Ville"] = InputRecords[j]["Ville"]
        /\ InputRecords[i]["Code_postal"] # InputRecords[j]["Code_postal"]

\* C3: the station count (Apparition) of every output row is the number of
\* input records that share its CityKey and have a region.
C3_StationCount ==
    Processed =>
        \A a \in DOMAIN OutputRows :
            \E key \in Cities :
                /\ OutputRows[a]["cp_ville"] = Str(key)
                /\ OutputRows[a]["Apparition"] = Cardinality(StationsOf(key))

\* C3 witness: a city of two stations, one of them reporting no price, beside
\* a record of the same key that has no region.
C3_Witness ==
    /\ Processed
    /\ \E a \in DOMAIN OutputRows :
        /\ OutputRows[a]["Apparition"] = 2
        /\ isna(OutputRows[a]["SP98_prix"])
        /\ \E i \in DOMAIN InputRecords :
            /\ ~HasRegion(InputRecords[i])
            /\ HasCityKey(InputRecords[i])
            /\ OutputRows[a]["cp_ville"] = Str(CityKey(InputRecords[i]))

\* C4: every price of every output row is the sum of the prices its stations
\* report for that fuel divided by the number of stations reporting it.
C4_MeanPrice ==
    Processed =>
        \A a \in DOMAIN OutputRows : \A key \in Cities : \A fuel \in Fuels :
            ( /\ OutputRows[a]["cp_ville"] = Str(key)
              /\ Reporting(key, fuel) # {} )
            => OutputRows[a][fuel] = Float(MeanPrice(key, fuel))

\* C4 witness: a city whose three stations report 1.20, 1.40 and nothing for
\* the first fuel gets 1.30.
C4_Witness ==
    /\ Processed
    /\ \E a \in DOMAIN OutputRows :
        /\ OutputRows[a]["Apparition"] = 3
        /\ OutputRows[a]["Gazole_prix"] = Float(Rat(13, 10))
        /\ \E key \in Cities :
            /\ OutputRows[a]["cp_ville"] = Str(key)
            /\ Cardinality(Reporting(key, "Gazole_prix")) = 2

\* C5: a city none of whose stations reports some fuel is in the output, with
\* that fuel missing (not 0.0), its station count and its other means as usual.
C5_AbsentFuelKeepsRow ==
    Processed =>
        \A key \in Cities : \A fuel \in Fuels :
            Reporting(key, fuel) = {}
            => \E a \in OutputRowsOf(key) :
                /\ isna(OutputRows[a][fuel])
                /\ OutputRows[a]["Apparition"] = Cardinality(StationsOf(key))
                /\ \A other \in Fuels :
                    Reporting(key, other) # {}
                    => OutputRows[a][other] = Float(MeanPrice(key, other))

\* C5 witness: an output row with a fuel missing and another fuel present.
C5_Witness ==
    /\ Processed
    /\ \E key \in Cities : \E fuel, other \in Fuels :
        /\ Reporting(key, fuel) = {}
        /\ Reporting(key, other) # {}
        /\ \E a \in OutputRowsOf(key) : notna(OutputRows[a][other])

-----------------------------------------------------------------------------
(* Geometry, as the input format defines it: "<lat>, <lon>".                *)

\* A geometry field that holds a latitude and a longitude.
ValidGeometry(field) ==
    LET parts == split(field)
    IN  Len(parts) = 2 /\ float(parts[1]).ok /\ float(parts[2]).ok

\* A geometry field that is written but holds no component: ", ".
EmptyGeometry(field) ==
    field # <<>> /\ \A i \in DOMAIN split(field) : split(field)[i] = <<>>

\* The stations of a city that have a valid geometry.
Located(key) ==
    {i \in StationsOf(key) : ValidGeometry(InputRecords[i]["geom"])}

\* The records with a region: the rows left by the cleaning stage.
CleanedRecords == {i \in DOMAIN InputRecords : HasRegion(InputRecords[i])}

\* The sum of one component (1: latitude, 2: longitude) over a set of records.
RECURSIVE SumCoordinate(_, _)
SumCoordinate(S, n) ==
    IF S = {} THEN Rat(0, 1)
    ELSE LET i == CHOOSE j \in S : TRUE
         IN  RatAdd(NumberOf(split(InputRecords[i]["geom"])[n]),
                    SumCoordinate(S \ {i}, n))

MeanCoordinate(key, n) ==
    RatDivInt(SumCoordinate(Located(key), n), Cardinality(Located(key)))

\* C6: the mean latitude and longitude of every city are the means over its
\* stations with a valid geometry; a station with an empty or malformed
\* geometry adds no point and does not count in the divisor, so that
\* "48.0, 2.0" and "" give (48.0, 2.0).  Stated for the inputs in which every
\* city has a station with a valid geometry.
C6_MeanCoordinates ==
    ( /\ Called
      /\ Cities # {}
      /\ \A key \in Cities : Located(key) # {} )
    => /\ Processed
       /\ \A key \in Cities :
            \E a \in OutputRowsOf(key) :
                /\ OutputRows[a]["Latitude"] = Float(MeanCoordinate(key, 1))
                /\ OutputRows[a]["Longitude"] = Float(MeanCoordinate(key, 2))

\* C7: a record whose geometry is empty, missing or not convertible never
\* aborts process_data: the run returns a table in which that record counts
\* in the price means and in the station count of its city.  Stated for the
\* inputs in which every city has a station with a valid geometry.
C7_BadGeometryNeverAborts ==
    ( /\ Called
      /\ Cities # {}
      /\ \A key \in Cities : Located(key) # {}
      /\ \E i \in CleanedRecords : ~ValidGeometry(InputRecords[i]["geom"]) )
    => /\ Processed
       /\ \A key \in Cities :
            \E a \in OutputRowsOf(key) :
                /\ OutputRows[a]["Apparition"] = Cardinality(StationsOf(key))
                /\ \A fuel \in Fuels :
                    Reporting(key, fuel) # {}
                    => OutputRows[a][fuel] = Float(MeanPrice(key, fuel))

\* The file with the records that have no region taken out.
WithoutRegionless(f) ==
    IF f.kind = "csv"
    THEN [f EXCEPT !.records = SelectSeq(f.records, HasRegion)]
    ELSE f

\* C8: no record without a region contributes to any output row: every output
\* row is the row of a city that has a record with a region, and the output
\* is the one computed from the file without the records that lack a region.
C8_RegionlessRowsIgnored ==
    Processed =>
        /\ \A a \in DOMAIN OutputRows :
              \E key \in Cities : OutputRows[a]["cp_ville"] = Str(key)
        /\ data_frame =
              process_data(load_csv_file(WithoutRegionless(file)).ret).df

\* C8 witness: two stations of one city and a record of another city that
\* has no region give one output row, of station count 2.
C8_Witness ==
    /\ Processed
    /\ Len(InputRecords) = 3
    /\ Len(OutputRows) = 1
    /\ OutputRows[1]["Apparition"] = 2
    /\ \E i \in DOMAIN InputRecords :
        /\ ~HasRegion(InputRecords[i])
        /\ HasCityKey(InputRecords[i])
        /\ CityKey(InputRecords[i]) \notin Cities

\* C9: when a city has no station with a valid geometry (its geometries hold
\* no component), the run either returns a table in which that city has
\* missing coordinates or fails with an AggregationError.
C9_NoValidGeometryOutcome ==
    ( /\ Called
      /\ \E key \in Cities : Located(key) = {}
      /\ \A i \in CleanedRecords :
            \/ ValidGeometry(InputRecords[i]["geom"])
            \/ EmptyGeometry(InputRecords[i]["geom"]) )
    => \/ raised = "AggregationError"
       \/ /\ Processed
          /\ \A key \in Cities :
                Located(key) = {}
                => \E a \in OutputRowsOf(key) :
                      /\ isna(OutputRows[a]["Latitude"])
                      /\ isna(OutputRows[a]["Longitude"])

\* C10 as claimed: when the file is absent, load_csv_file signals a
\* NotFoundError that carries the attempted path to its caller, as an
\* exception or as the value returned.
C10_NotFoundErrorSignalled ==
    (pc = "constructed" /\ file.kind = "absent")
    => \/ raised = "NotFoundError"
       \/ (data_frame.t = "NotFoundError" /\ data_frame.path = csv_path)

\* C10 as amended: when the file is absent, load_csv_file shows one error box
\* that names the attempted path and returns None; nothing is raised.
C10_NotFoundBoxAndNone ==
    (pc = "constructed" /\ file.kind = "absent")
    => /\ data_frame = None
       /\ raised = "none"
       /\ boxes = <<[title |-> "Error", what |-> "was not found",
                     path |-> csv_path]>>

\* C10 witness: the holder constructed on an absent file.
C10_Witness == pc = "constructed" /\ file.kind = "absent"

-----------------------------------------------------------------------------
\* The file exists and holds no data row: no byte at all, or a header row
\* alone.
ZeroDataRows(f) ==
    f.kind = "zero_bytes" \/ (f.kind = "csv" /\ f.records = <<>>)

\* C11: when the file exists and holds no data row, load_csv_file signals an
\* empty dataset in place of a table: an EmptyDatasetError raised or
\* returned, or at the least the "is empty" box with None returned.
C11_EmptyDatasetSignalled ==
    (pc = "constructed" /\ ZeroDataRows(file))
    => \/ raised = "EmptyDatasetError"
       \/ data_frame = [t |-> "EmptyDatasetError"]
       \/ /\ data_frame = None
          /\ \E i \in DOMAIN boxes : boxes[i].what = "is empty"

-----------------------------------------------------------------------------
\* The load has failed: the holder was constructed on a file that is absent,
\* empty or unreadable.
LoadFailed ==
    pc # "start" /\ file.kind \in {"absent", "zero_bytes", "unreadable"}

\* The typed failures of the loader.
LoadErrors == {"NotFoundError", "EmptyDatasetError", "LoadError"}

\* C12: after each of the three load failures the caller holds a failure it
\* can tell from a table: no raw exception ends the run, neither out of the
\* loader nor out of the caller's use of the value returned as a table.
C12_LoadFailureNeverUsedAsTable ==
    LoadFailed => raised \in {"none"} \cup LoadErrors

\* A missing-resource failure has happened: the loader found no file.
MissingResourceFailure == pc = "constructed" /\ file.kind = "absent"

\* A schema-mismatch failure has happened: a required column was not found.
SchemaMismatchFailure == raised = "KeyError"

\* C13: once a missing-resource failure or a schema-mismatch failure has
\* happened, the run takes no further step: process_data (cleaning, grouping
\* and merge) and the save are not executed.
C13_NoStepAfterFailure ==
    [][(MissingResourceFailure \/ SchemaMismatchFailure) => pc' = pc]_vars

-----------------------------------------------------------------------------
\* The loaded table lacks a required column.
MissingColumn == file.kind = "csv" /\ ~HasSchema(file)

\* C14 as claimed: when a required column is missing from the loaded table,
\* process_data fails with a SchemaError, no output table is produced and the
\* held table is the loaded one.
C14_SchemaErrorRaised ==
    (Called /\ MissingColumn)
    => /\ raised = "SchemaError"
       /\ saved = None
       /\ data_frame = read_csv(file).df

\* C14 as amended: when a required column is missing from the loaded table,
\* process_data ends in the KeyError of the column selection, no output
\* table is produced and the held table is the loaded one.
C14_KeyErrorTableUnchanged ==
    (Called /\ MissingColumn)
    => /\ raised = "KeyError"
       /\ pc = "crashed"
       /\ saved = None
       /\ data_frame = read_csv(file).df

\* C14 witness: process_data called on a loaded table of some rows that
\* lacks a required column.
C14_Witness == Called /\ MissingColumn /\ file.records # <<>>

-----------------------------------------------------------------------------
\* The save was called and nothing was saved.
SaveFailed == (pc = "done" /\ saved = None) \/ raised = "OSError"

\* C15 as claimed: when the directory cannot be created or the file cannot
\* be written, the save ends in a failure its caller can catch.
C15_PersistenceFailureSurfaced == SaveFailed => raised # "none"

\* C15 as amended: a save that writes nothing either ends in the OSError of
\* mkdir, without a box, or shows the "An error occurred" box and returns
\* normally.
C15_SaveFailureOutcome ==
    [][(pc = "processed" /\ pc' # pc /\ saved' = None)
       => \/ /\ raised' = "OSError"
             /\ pc' = "crashed"
             /\ boxes' = boxes
          \/ /\ raised' = "none"
             /\ pc' = "done"
             /\ boxes' = Append(boxes, [title |-> "Error",
                                        what |-> "An error occurred",
                                        path |-> ""])]_vars

\* C15 witness: the save has returned normally and nothing was saved.
C15_Witness == pc = "done" /\ saved = None /\ raised = "none"

-----------------------------------------------------------------------------
-----------------------------------------------------------------------------
\* Two postal codes that are different texts and read as the same number.
DifferByLeadingZeros(cp1, cp2) ==
    /\ cp1 # cp2
    /\ float(cp1).ok /\ float(cp2).ok
    /\ NumberOf(cp1) = NumberOf(cp2)

\* C17: the key of every output row is the postal-code text of a record as
\* written in the file, a space and its city name; and two stations whose
\* postal codes differ only by leading zeros have different keys and
\* different output rows.
C17_PostalCodeKeptAsText ==
    Processed =>
        /\ \A a \in DOMAIN OutputRows :
              \E i \in DOMAIN InputRecords :
                 /\ HasRegion(InputRecords[i]) /\ HasCityKey(InputRecords[i])
                 /\ OutputRows[a]["cp_ville"] =
                       Str(InputRecords[i]["Code_postal"] \o <<" ">>
                              \o InputRecords[i]["Ville"])
        /\ \A i, j \in DOMAIN InputRecords :
              LET ri == InputRecords[i]
                  rj == InputRecords[j]
              IN  ( /\ HasRegion(ri) /\ HasRegion(rj)
                    /\ HasCityKey(ri) /\ HasCityKey(rj)
                    /\ DifferByLeadingZeros(ri["Code_postal"],
                                            rj["Code_postal"]) )
                  => /\ CityKey(ri) # CityKey(rj)
                     /\ OutputRowsOf(CityKey(ri)) # {}
                     /\ OutputRowsOf(CityKey(rj)) # {}
                     /\ OutputRowsOf(CityKey(ri)) \cap OutputRowsOf(CityKey(rj))
                           = {}

\* C17 witness: an output computed from two stations of the same city name
\* whose postal codes differ only by a leading zero.
C17_Witness ==
    /\ Processed
    /\ \E i, j \in DOMAIN InputRecords :
          /\ HasRegion(InputRecords[i]) /\ HasRegion(InputRecords[j])
          /\ HasCityKey(InputRecords[i]) /\ HasCityKey(InputRecords[j])
          /\ InputRecords[i]["Ville"] = InputRecords[j]["Ville"]
          /\ DifferByLeadingZeros(InputRecords[i]["Code_postal"],
                                  InputRecords[j]["Code_postal"])

-----------------------------------------------------------------------------
\* The columns of the output schema: region, department, city key, the six
\* fuel-price means, mean latitude, mean longitude and station count.
OutputColumns ==
    {"Region", "Departement", "cp_ville"} \cup Range(price_columns)
        \cup {"Latitude", "Longitude", "Apparition"}

\* The file with every column outside the projected set taken out.
Projected(f) ==
    LET kept == SelectSeq(f.header, LAMBDA c : c \in Range(useful_columns))
    IN  [kind |-> "csv",
         header |-> kept,
         records |-> [i \in DOMAIN f.records |->
                        [c \in Range(kept) |-> f.records[i][c]]]]

\* C18: the output table has the columns of the output schema, each once and
\* no other, in every row; and it is the table process_data computes from the
\* file without the columns outside the projected set.
C18_OutputColumnsAndProjection ==
    Processed =>
        /\ Range(data_frame.columns) = OutputColumns
        /\ Len(data_frame.columns) = Cardinality(OutputColumns)
        /\ \A a \in DOMAIN OutputRows : DOMAIN OutputRows[a] = OutputColumns
        /\ data_frame = process_data(read_csv(Projected(file)).df).df

\* C18 witness: an output of some rows computed from a file that carries a
\* column outside the projected set.
C18_Witness ==
    /\ Processed
    /\ OutputRows # <<>>
    /\ Range(file.header) \ Range(useful_columns) # {}

-----------------------------------------------------------------------------
(* DashboardHolder: the columns it reads from the table it is given.        *)

\* The columns read by a fixed name: 'Département' and 'Région' (__init__),
\* 'Latitude' and 'Longitude' (_get_city_markers), 'cp_ville' and
\* 'Nombre de stations' (_get_city_popup_content, _setup_layout_distribution,
\* _display_text_info).
dashboard_columns ==
    {"Departement", "Region", "cp_ville", "Latitude", "Longitude",
     "Nombre de stations"}

\* self.fuel_columns = price_columns: the fuel list the dashboard is given,
\* each element read as a column (row[col] for col in self.fuel_columns).
fuel_columns == price_columns

\* The values the three fuel dropdowns of _setup_layout_link start with;
\* update_fuel_card hands each to _display_fuel_info, which reads it as a
\* column: groupby(area)[fuel].
first_value == <<"Gazole", "SP98", "SP95">>

\* The default of _generate_price_histogram, the x column of the histogram.
selected_fuel == "Gazole"

\* C19: every column the dashboard reads from the table is a column of the
\* output of process_data, and every fuel identifier it uses as a column
\* name is one of the six price columns of the processor.
C19_DashboardReadsOutputSchema ==
    Processed =>
        /\ dashboard_columns \cup Range(fuel_columns)
              \subseteq Range(data_frame.columns)
        /\ Range(fuel_columns) \cup Range(first_value) \cup {selected_fuel}
              \subseteq Range(price_columns)

-----------------------------------------------------------------------------
\* The cell read_csv makes of a field of a str column.
TextCell(field) == IF field = <<>> THEN NaN ELSE Str(field)

\* The first station of a city in input row order.
FirstStation(key) ==
    CHOOSE i \in StationsOf(key) : \A j \in StationsOf(key) : i <= j

\* The stations of a city that carry a department.
WithDepartment(key) ==
    {i \in StationsOf(key) : InputRecords[i]["Departement"] # <<>>}

\* The department of the first station of a city that carries one, missing
\* when none does.
FirstDepartment(key) ==
    IF WithDepartment(key) = {} THEN NaN
    ELSE LET i == CHOOSE k \in WithDepartment(key) :
                     \A j \in WithDepartment(key) : k <= j
         IN  Str(InputRecords[i]["Departement"])

\* C20 as claimed: the region and the department of every output row are
\* the values carried by the first row, in input row order, among the
\* cleaned rows of its CityKey.
C20_RegionDepartmentOfFirstRow ==
    Processed =>
        \A a \in DOMAIN OutputRows :
            \E key \in Cities :
                /\ OutputRows[a]["cp_ville"] = Str(key)
                /\ OutputRows[a]["Region"] =
                      TextCell(InputRecords[FirstStation(key)]["Region"])
                /\ OutputRows[a]["Departement"] =
                      TextCell(InputRecords[FirstStation(key)]["Departement"])

\* C20 as amended: the region of every output row is the one carried by the
\* first row, in input row order, among the cleaned rows of its CityKey; its
\* department is the one carried by the first of those rows that has a
\* department, and is missing when none has.
C20_RegionOfFirstRowDepartmentFirstPresent ==
    Processed =>
        \A a \in DOMAIN OutputRows :
            \E key \in Cities :
                /\ OutputRows[a]["cp_ville"] = Str(key)
                /\ OutputRows[a]["Region"] =
                      TextCell(InputRecords[FirstStation(key)]["Region"])
                /\ OutputRows[a]["Departement"] = FirstDepartment(key)

\* C20 witness: an output row of a city whose first station carries no
\* department and whose later station carries one.
C20_Witness ==
    /\ Processed
    /\ \E key \in Cities :
          /\ OutputRowsOf(key) # {}
          /\ WithDepartment(key) # {}
          /\ FirstStation(key) \notin WithDepartment(key)

-----------------------------------------------------------------------------
\* C21: the department of every output row is the first department present
\* among the stations of its city in row order: the one of a later station
\* when the first station has none, and missing only when no station of the
\* city has one.
C21_DepartmentFirstPresent ==
    Processed =>
        \A key \in Cities :
            \A a \in OutputRowsOf(key) :
                LET dept == OutputRows[a]["Departement"]
                    with == WithDepartment(key)
                IN  /\ isna(dept) <=> with = {}
                    /\ with # {} =>
                          \E i \in with :
                              /\ \A j \in with : i <= j
                              /\ dept = Str(InputRecords[i]["Departement"])

\* C21 witness: an output row that carries the department of a later
\* station, the first station of its city having none.
C21_Witness ==
    /\ Processed
    /\ \E key \in Cities :
          /\ FirstStation(key) \notin WithDepartment(key)
          /\ \E a \in OutputRowsOf(key) : notna(OutputRows[a]["Departement"])

-----------------------------------------------------------------------------
\* The keys a table holds in its column cp_ville.
KeysOf(t) == {t.rows[i]["cp_ville"] : i \in DOMAIN t.rows}

\* The row of a table under a key is the only one and agrees with the given
\* row on every column of the table.
JoinedFrom(row, t) ==
    /\ Cardinality({i \in DOMAIN t.rows :
                       t.rows[i]["cp_ville"] = row["cp_ville"]}) = 1
    /\ \E i \in DOMAIN t.rows :
          \A c \in Range(t.columns) : row[c] = t.rows[i][c]

\* C22: the table process_data leaves is the inner join on cp_ville of the
\* four reductions of the cleaned table: a key is in it exactly when it is
\* in all four, its row carries the values of the row of the key in each of
\* them, and the geo, price and count reductions hold every key of the
\* cleaned table.
C22_InnerJoinOfFourReductions ==
    Processed =>
        \E cleaned \in {data_cleaning(read_csv(file).df).df} :
        \E geo \in {city_geo_mapping(cleaned)} :
        \E prices \in {city_prices_means(cleaned)} :
        \E coords \in {city_coords_means(cleaned)} :
        \E count \in {city_app_count(cleaned)} :
        \E keys \in {{cleaned.rows[i]["cp_ville"] :
                        i \in {j \in DOMAIN cleaned.rows :
                                  notna(cleaned.rows[j]["cp_ville"])}}} :
            /\ coords.exc = "none"
            /\ KeysOf(geo) = keys
            /\ KeysOf(prices) = keys
            /\ KeysOf(count) = keys
            /\ KeysOf(data_frame) =
                  KeysOf(geo) \cap KeysOf(prices) \cap KeysOf(coords.df)
                      \cap KeysOf(count)
            /\ Len(OutputRows) = Cardinality(KeysOf(data_frame))
            /\ \A a \in DOMAIN OutputRows :
                  /\ JoinedFrom(OutputRows[a], geo)
                  /\ JoinedFrom(OutputRows[a], prices)
                  /\ JoinedFrom(OutputRows[a], coords.df)
                  /\ JoinedFrom(OutputRows[a], count)

\* C22 witness: an output of two cities joined from the reductions of a
\* cleaned table of three stations.
C22_Witness ==
    /\ Processed
    /\ Len(OutputRows) = 2
    /\ Cardinality({i \in DOMAIN InputRecords :
                       HasRegion(InputRecords[i])
                       /\ HasCityKey(InputRecords[i])}) = 3

-----------------------------------------------------------------------------
(* process_data statement by statement: every statement of _data_cleaning   *)
(* assigns self.data_frame, so the table between two statements is state.   *)

\* self.data_frame = self.data_frame[useful_columns]
Project ==
    /\ pc = "constructed"
    /\ IF data_frame = None
       THEN raised' = "TypeError" /\ pc' = "crashed" /\ UNCHANGED data_frame
       ELSE IF ~(Range(useful_columns) \subseteq Range(data_frame.columns))
       THEN raised' = "KeyError" /\ pc' = "crashed" /\ UNCHANGED data_frame
       ELSE /\ data_frame' = project(data_frame)
            /\ pc' = "projected"
            /\ UNCHANGED raised
    /\ UNCHANGED <<file, boxes, saved, outputs, dashboard>>

\* self.data_frame['cp_ville'] = 'Code postal' + ' ' + 'Ville'
AddKey ==
    /\ pc = "projected"
    /\ data_frame' = add_cp_ville(data_frame)
    /\ pc' = "keyed"
    /\ UNCHANGED <<file, raised, boxes, saved, outputs, dashboard>>

\* self.data_frame = self.data_frame.drop(columns=['Ville', 'Code postal'])
DropColumns ==
    /\ pc = "keyed"
    /\ data_frame' = drop(data_frame, {"Ville", "Code_postal"})
    /\ pc' = "dropped"
    /\ UNCHANGED <<file, raised, boxes, saved, outputs, dashboard>>

\* self.data_frame = self.data_frame.dropna(subset=['Région'])
DropNa ==
    /\ pc = "dropped"
    /\ data_frame' = dropna_Region(data_frame)
    /\ pc' = "filtered"
    /\ UNCHANGED <<file, raised, boxes, saved, outputs, dashboard>>

\* The geometry decoded with the region filter left out.
DecodeGeom_unfiltered ==
    /\ pc = "dropped"
    /\ \E r \in {apply_decode_geom(data_frame)} :
          IF r.exc # "none"
          THEN raised' = r.exc /\ pc' = "crashed" /\ UNCHANGED data_frame
          ELSE /\ data_frame' = [data_frame EXCEPT !.rows = r.rows]
               /\ pc' = "cleaned"
               /\ UNCHANGED raised
    /\ UNCHANGED <<file, boxes, saved, outputs, dashboard>>

\* self.data_frame['geom'] = self.data_frame['geom'].apply(lambda x: ...)
DecodeGeom ==
    /\ pc = "filtered"
    /\ \E r \in {apply_decode_geom(data_frame)} :
          IF r.exc # "none"
          THEN raised' = r.exc /\ pc' = "crashed" /\ UNCHANGED data_frame
          ELSE /\ data_frame' = [data_frame EXCEPT !.rows = r.rows]
               /\ pc' = "cleaned"
               /\ UNCHANGED raised
    /\ UNCHANGED <<file, boxes, saved, outputs, dashboard>>

\* self._compute_new_dataframe()
ComputeNewDataframe ==
    /\ pc = "cleaned"
    /\ \E r \in {compute_new_dataframe(data_frame)} :
          /\ data_frame' = r.df
          /\ raised' = r.exc
          /\ pc' = IF r.exc = "none" THEN "processed" ELSE "crashed"
    /\ UNCHANGED <<file, boxes, saved, outputs, dashboard>>

NextSteps ==
    \/ Construct
    \/ Project
    \/ AddKey
    \/ DropColumns
    \/ DropNa
    \/ DecodeGeom
    \/ ComputeNewDataframe
    \/ Save

\* The run of main.py with process_data taken statement by statement.
SpecSteps == Init /\ [][NextSteps]_vars

\* The table is one that geometry decoding has gone over.
Decoded(t) == \E i \in DOMAIN t.rows : t.rows[i]["geom"].t = "list"

\* C23: the key is computed for every row of the projected table, the rows
\* without a region included, before any row is dropped; and the geometry is
\* decoded only in a table the region filter has gone over, so that no row
\* without a region is ever decoded.
C23_KeyThenFilterThenDecode ==
    /\ pc = "keyed" =>
          /\ Len(data_frame.rows) = Len(file.records)
          /\ \A i \in DOMAIN data_frame.rows :
                data_frame.rows[i]["cp_ville"] =
                    cp_ville(data_frame.rows[i]["Code_postal"],
                             data_frame.rows[i]["Ville"])
    /\ pc \in {"projected", "keyed", "dropped", "filtered"} =>
          ~Decoded(data_frame)
    /\ pc \in {"projected", "keyed", "dropped"} =>
          Len(data_frame.rows) = Len(file.records)
    /\ pc \in {"filtered", "cleaned"} =>
          /\ "cp_ville" \in Range(data_frame.columns)
          /\ \A i \in DOMAIN data_frame.rows :
                notna(data_frame.rows[i]["Region"])
    /\ pc = "cleaned" =>
          [df |-> data_frame, exc |-> "none"]
              = data_cleaning(read_csv(file).df)

\* C23 witness: a cleaned table of some rows, decoded after the region filter
\* has dropped a keyed row without a region.
C23_Witness ==
    /\ pc = "cleaned"
    /\ data_frame.rows # <<>>
    /\ Len(data_frame.rows) < Len(file.records)

\* C24: after geometry decoding, every row of the cleaned table holds a
\* geometry that is a sequence of exactly two numbers.
C24_GeometryOfTwoNumbers ==
    pc = "cleaned" =>
        \A i \in DOMAIN data_frame.rows :
            /\ data_frame.rows[i]["geom"].t = "list"
            /\ Len(data_frame.rows[i]["geom"].v) = 2

-----------------------------------------------------------------------------
\* The stations that are counted: the records with a region, a postal code
\* and a city name.
CountedStations ==
    {i \in DOMAIN InputRecords :
        HasRegion(InputRecords[i]) /\ HasCityKey(InputRecords[i])}

\* The stations with a region that lack the postal code or the city name.
KeylessStations ==
    {i \in DOMAIN InputRecords :
        HasRegion(InputRecords[i]) /\ ~HasCityKey(InputRecords[i])}

\* The sum of the station counts of a sequence of output rows.
RECURSIVE SumApparition(_)
SumApparition(rows) ==
    IF rows = <<>> THEN 0
    ELSE Head(rows)["Apparition"] + SumApparition(Tail(rows))

\* C25: a record with a region that lacks the postal code or the city name
\* gets no key and is in no output row: no output key is made of its fields,
\* and the station counts of the output add up to the number of records with
\* a region, a postal code and a city name.
C25_KeylessRowsNotCounted ==
    Processed =>
        /\ SumApparition(OutputRows) = Cardinality(CountedStations)
        /\ \A i \in KeylessStations :
              OutputRowsOf(CityKey(InputRecords[i])) = {}

\* C25 witness: an output computed from a file with a station that has a
\* region and no city name.
C25_Witness ==
    /\ Processed
    /\ OutputRows # <<>>
    /\ KeylessStations # {}

-----------------------------------------------------------------------------
(* Files whose postal codes and city names contain spaces.                  *)

t_0 == <<"0">>
\* "0 1": a postal code with a space
t_0_1 == <<"0", " ", "1">>
\* "1 A" and " A": city names with a space
t_1_A == <<"1", " ", "A">>
t__A == <<" ", "A">>

\* Stations with a region and a valid geometry: ("0", "1 A") and ("0 1", "A")
\* concatenate to the same text, ("01", " A") and ("01", "A") do not.
KeyRecords ==
    { Record(t_R, t_0, t_1_A, g_48_2, p_full),
      Record(t_R, t_0_1, t_A, g_50_4, p_some),
      Record(t_R, t_01, t__A, g_48_2, p_some),
      Record(t_R, t_01, t_A, g_50_4, p_full) }

KeyFiles ==
    {[kind |-> "csv", header |-> raw_columns, records |-> rs] :
        rs \in UNION {[1..n -> KeyRecords] : n \in 0..MaxRows}}

InitKeys ==
    /\ file \in KeyFiles
    /\ pc = "start"
    /\ data_frame = None
    /\ raised = "none"
    /\ boxes = <<>>
    /\ saved = None
    /\ outputs = <<>>
    /\ dashboard = None

\* The run of main.py on a file of KeyFiles.
SpecKeys == InitKeys /\ [][Next]_vars

\* The (postal code, city name) pairs of the counted stations.
KeyPairs ==
    {<<InputRecords[i]["Code_postal"], InputRecords[i]["Ville"]>> :
        i \in CountedStations}

HasSpace(text) == \E k \in DOMAIN text : text[k] = " "

\* C26 as claimed: two stations are aggregated under the same key only if
\* they have the same postal code and the same city name, spaces or not: the
\* output has one row for each (postal code, city name) pair.
C26_KeyInjective ==
    Processed => Len(OutputRows) = Cardinality(KeyPairs)

\* C26 as amended: when no postal code contains a space, two stations are
\* aggregated under the same key only if they have the same postal code and
\* the same city name, also when a city name contains a space.
C26_KeyInjectiveWithoutSpaceInPostalCode ==
    (Processed /\ \A p \in KeyPairs : ~HasSpace(p[1]))
    => Len(OutputRows) = Cardinality(KeyPairs)

\* C26 witness: an output computed from stations of three different pairs,
\* city names with a space among them and no postal code with a space.
C26_Witness ==
    /\ Processed
    /\ Cardinality(KeyPairs) = 3
    /\ \A p \in KeyPairs : ~HasSpace(p[1])
    /\ \E p \in KeyPairs : HasSpace(p[2])

-----------------------------------------------------------------------------
\* C27: the rows of the output table are in strictly ascending order of
\* cp_ville, whatever the order of the records in the file.
C27_OutputAscendingByKey ==
    Processed =>
        \A a, b \in DOMAIN OutputRows :
            a < b => StrLess(OutputRows[a]["cp_ville"].v,
                             OutputRows[b]["cp_ville"].v)

\* C27 witness: an output of two cities computed from a file in which a
\* station of the greater key comes before every station of the lesser one.
C27_Witness ==
    /\ Processed
    /\ Len(OutputRows) = 2
    /\ \E i \in CountedStations :
          \A j \in CountedStations :
              CityKey(InputRecords[j]) # CityKey(InputRecords[i])
              => /\ i < j
                 /\ StrLess(CityKey(InputRecords[j]), CityKey(InputRecords[i]))

-----------------------------------------------------------------------------
(* process_data called a second time on the same holder.                    *)

\* df_holder.process_data() once more, on the aggregated table.
ProcessDataAgain ==
    /\ pc = "processed"
    /\ \E r \in {process_data(data_frame)} :
           /\ data_frame' = r.df
           /\ raised' = r.exc
           /\ pc' = IF r.exc = "none" THEN "processed_again"
                    ELSE "crashed_again"
    /\ UNCHANGED <<file, boxes, saved, outputs, dashboard>>

NextAgain == Next \/ ProcessDataAgain

\* The run of main.py, with a second call of process_data before the save.
SpecAgain == Init /\ [][NextAgain]_vars

\* C28: a second call of process_data on a holder whose table is already
\* aggregated ends in an exception, the KeyError of the column selection,
\* and leaves the aggregated table as it was.
C28_SecondCallFails ==
    [][(pc = "processed" /\ pc' \in {"processed_again", "crashed_again"})
       => /\ pc' = "crashed_again"
          /\ raised' = "KeyError"
          /\ data_frame' = data_frame]_vars

\* C28 witness: the second call has ended on an aggregated table of two rows.
C28_Witness ==
    /\ pc = "crashed_again"
    /\ data_frame # None
    /\ Len(data_frame.rows) = 2

-----------------------------------------------------------------------------
(* DataFrameHolder of src/data_processor/data_processor.py: the same class  *)
(* with the table in self._data_frame and the fuel list in                  *)
(* self._price_columns, read through properties.  The pandas operations are *)
(* the ones above; the statements of its methods are written out again.     *)

\* self._price_columns, returned by the property price_columns
data_processor_price_columns ==
    <<"Gazole_prix", "SP98_prix", "SP95_prix", "E85_prix", "E10_prix",
      "GPLc_prix">>

\* useful_columns of its _data_cleaning
data_processor_useful_columns ==
    <<"Region", "Departement", "Code_postal", "Ville", "geom">>
        \o data_processor_price_columns

\* Its _data_cleaning with the region filter left out.
data_processor_data_cleaning_unfiltered(df) ==
    IF df = None THEN [df |-> df, exc |-> "TypeError"]
    ELSE IF ~(Range(data_processor_useful_columns) \subseteq Range(df.columns))
    THEN [df |-> df, exc |-> "KeyError"]
    ELSE
      Bind([columns |-> data_processor_useful_columns,
            rows |-> [i \in DOMAIN df.rows |->
                        [c \in Range(data_processor_useful_columns) |->
                            df.rows[i][c]]]],
           LAMBDA projected :
      Bind(add_cp_ville(projected), LAMBDA keyed :
      Bind(drop(keyed, {"Ville", "Code_postal"}), LAMBDA dropped :
      Bind(apply_decode_geom(dropped), LAMBDA decoded :
        IF decoded.exc # "none"
        THEN [df |-> dropped, exc |-> decoded.exc]
        ELSE [df |-> [columns |-> dropped.columns, rows |-> decoded.rows],
              exc |-> "none"]))))

\* Its _data_cleaning on self._data_frame: [df, exc].
data_processor_data_cleaning(df) ==
    IF df = None THEN [df |-> df, exc |-> "TypeError"]
    ELSE IF ~(Range(data_processor_useful_columns) \subseteq Range(df.columns))
    THEN [df |-> df, exc |-> "KeyError"]
    ELSE
      Bind([columns |-> data_processor_useful_columns,
            rows |-> [i \in DOMAIN df.rows |->
                        [c \in Range(data_processor_useful_columns) |->
                            df.rows[i][c]]]],
           LAMBDA projected :
      Bind(add_cp_ville(projected), LAMBDA keyed :
      Bind(drop(keyed, {"Ville", "Code_postal"}), LAMBDA dropped :
      Bind(dropna_Region(dropped), LAMBDA filtered :
      Bind(apply_decode_geom(filtered), LAMBDA decoded :
        IF decoded.exc # "none"
        THEN [df |-> filtered, exc |-> decoded.exc]
        ELSE [df |-> [columns |-> filtered.columns, rows |-> decoded.rows],
              exc |-> "none"])))))

\* groupby('cp_ville')[self.price_columns].mean().reset_index()
data_processor_city_prices_means(df) ==
    LET keys == group_keys(df)
    IN  [columns |-> <<"cp_ville">> \o data_processor_price_columns,
         rows |-> [i \in DOMAIN keys |->
                     [c \in {"cp_ville"}
                            \cup Range(data_processor_price_columns) |->
                         IF c = "cp_ville" THEN Str(keys[i])
                         ELSE mean(group(df, keys[i]), c)]]]

\* Its _compute_new_dataframe on self._data_frame: [df, exc].
data_processor_compute_new_dataframe(df) ==
    Bind(city_geo_mapping(df), LAMBDA geo :
    Bind(data_processor_city_prices_means(df), LAMBDA prices :
    Bind(city_coords_means(df), LAMBDA coords :
      IF coords.exc # "none" THEN [df |-> df, exc |-> coords.exc]
      ELSE
        Bind(city_app_count(df), LAMBDA count :
        Bind(merge(geo, prices), LAMBDA with_prices :
        Bind(merge(with_prices, coords.df), LAMBDA with_coords :
          [df |-> merge(with_coords, count), exc |-> "none"]))))))

\* Its process_data on self._data_frame: [df, exc].
data_processor_process_data(df) ==
    Bind(data_processor_data_cleaning(df), LAMBDA cleaned :
      IF cleaned.exc # "none" THEN cleaned
      ELSE data_processor_compute_new_dataframe(cleaned.df))

\* C29: on every loaded table, process_data of
\* data_processor/data_processor.py leaves the table that process_data of
\* processor/data_processor.py leaves, and raises what it raises.
C29_ProcessorModulesEquivalent ==
    (pc \in {"processed", "crashed"} /\ raised # "OSError")
    => data_processor_process_data(load_csv_file(file).ret)
          = [df |-> data_frame, exc |-> raised]

\* C29 witness: process_data has returned a table of two rows computed from
\* a file that also holds a station without a region.
C29_Witness ==
    /\ pc = "processed"
    /\ Len(data_frame.rows) = 2
    /\ \E i \in DOMAIN InputRecords : ~HasRegion(InputRecords[i])

-----------------------------------------------------------------------------
(* DashboardHolder: the switch and the region, department and city          *)
(* dropdowns of the home page, and the callbacks between them.  The table   *)
(* is read by its columns 'Région', 'Département' and 'cp_ville' only.      *)

\* A cell as a callback receives it back from the page: a missing value is
\* serialised as null and comes back as None.
to_json(c) == IF isna(c) THEN None ELSE c

\* Series.unique(): the distinct cells, in order of first appearance.
RECURSIVE unique(_)
unique(cells) ==
    IF cells = <<>> THEN <<>>
    ELSE LET init == unique(SubSeq(cells, 1, Len(cells) - 1))
             c == cells[Len(cells)]
         IN  IF c \in Range(init) THEN init ELSE Append(init, c)

\* self.data_frame[c]
column(df, c) == [i \in DOMAIN df.rows |-> df.rows[i][c]]

\* The text an f-string writes for a dropdown value.
format(value) == IF value = None THEN <<"N", "o", "n", "e">> ELSE value.v

\* self.data_frame.query(f'{c} == "{value}"'): the rows whose cell of column
\* c is the str of that text; a missing cell equals no text.
query(df, c, value) ==
    LET matches(row) == row[c] = Str(format(value))
    IN  [columns |-> df.columns, rows |-> SelectSeq(df.rows, matches)]

\* _from_reg_get_dep
from_reg_get_dep(df, reg) ==
    unique(column(query(df, "Region", reg), "Departement"))

\* _from_dep_get_cities
from_dep_get_cities(df, dep) ==
    unique(column(query(df, "Departement", dep), "cp_ville"))

\* [{'label': e, 'value': e} for e in list]: an option is held by its value.
options(list) == [i \in DOMAIN list |-> to_json(list[i])]

\* options[0]['value'] if options else None
default_value(opts) == IF opts # <<>> THEN opts[1] ELSE None

\* _create_dropdown(ptext, plist, id_dropdown): the options are the distinct
\* values of plist and the value is the first of them.
create_dropdown(plist) ==
    [options |-> options(unique(plist)), value |-> to_json(unique(plist)[1])]

\* _create_switch_button: the two options, the first one selected.
create_switch_button ==
    [options |-> <<"Verrouiller", "Deverrouiller">>, value |-> "Verrouiller"]

\* The four dropdown callbacks of _register_callbacks.
Callbacks ==
    {"update_dep_dropdown", "update_cit_dropdown", "set_default_dep_value",
     "set_default_cit_value"}

\* Stations of three regions-and-departments: city "01 A" of department D
\* and city "1 B" of department E in region R, city "1 A" of region R
\* without a department, city "01 B" of department S in region S.
DashboardRecords ==
    { Record(t_R, t_01, t_A, g_48_2, p_full),
      [Record(t_R, t_1, t_B, g_48_2, p_some) EXCEPT !["Departement"] = t_E],
      [Record(t_R, t_1, t_A, g_50_4, p_some) EXCEPT !["Departement"] = <<>>],
      [Record(t_S, t_01, t_B, g_50_4, p_full) EXCEPT !["Departement"] = t_S] }

DashboardFiles ==
    {[kind |-> "csv", header |-> raw_columns, records |-> rs] :
        rs \in UNION {[1..n -> DashboardRecords] : n \in 1..MaxRows}}

InitDashboard ==
    /\ file \in DashboardFiles
    /\ pc = "start"
    /\ data_frame = None
    /\ raised = "none"
    /\ boxes = <<>>
    /\ saved = None
    /\ outputs = <<>>
    /\ dashboard = None

\* DashboardHolder(dataframe, price_columns, lud) and the first load of the
\* home page: _setup_layout_home builds the switch and the three dropdowns
\* from the whole table, and Dash calls every callback once.
SetupLayoutHome ==
    /\ pc = "processed"
    /\ dashboard = None
    /\ \E reg \in {create_dropdown(column(data_frame, "Region"))},
          dep \in {create_dropdown(column(data_frame, "Departement"))},
          cit \in {create_dropdown(column(data_frame, "cp_ville"))} :
         dashboard' = [switch |-> create_switch_button.value,
                       reg_options |-> reg.options, reg |-> reg.value,
                       dep_options |-> dep.options, dep |-> dep.value,
                       cit_options |-> cit.options, cit |-> cit.value,
                       pending |-> Callbacks]
    /\ UNCHANGED <<file, pc, data_frame, raised, boxes, saved, outputs>>

\* update_dep_dropdown(reg, switch); its output is the input of
\* set_default_dep_value.
update_dep_dropdown ==
    /\ dashboard # None
    /\ "update_dep_dropdown" \in dashboard.pending
    /\ \E dep_list \in
            {IF dashboard.switch = "Verrouiller"
             THEN from_reg_get_dep(data_frame, dashboard.reg)
             ELSE unique(column(data_frame, "Departement"))} :
         dashboard' =
            [dashboard EXCEPT
                !.dep_options = options(dep_list),
                !.pending = (@ \ {"update_dep_dropdown"})
                                \cup {"set_default_dep_value"}]
    /\ UNCHANGED <<file, pc, data_frame, raised, boxes, saved, outputs>>

\* update_cit_dropdown(dep, switch); its output is the input of
\* set_default_cit_value.
update_cit_dropdown ==
    /\ dashboard # None
    /\ "update_cit_dropdown" \in dashboard.pending
    /\ \E cities_list \in
            {IF dashboard.switch = "Verrouiller"
             THEN from_dep_get_cities(data_frame, dashboard.dep)
             ELSE unique(column(data_frame, "cp_ville"))} :
         dashboard' =
            [dashboard EXCEPT
                !.cit_options = options(cities_list),
                !.pending = (@ \ {"update_cit_dropdown"})
                                \cup {"set_default_cit_value"}]
    /\ UNCHANGED <<file, pc, data_frame, raised, boxes, saved, outputs>>

\* set_default_dep_value(options); its output is an input of
\* update_cit_dropdown.
set_default_dep_value ==
    /\ dashboard # None
    /\ "set_default_dep_value" \in dashboard.pending
    /\ dashboard' =
            [dashboard EXCEPT
                !.dep = default_value(dashboard.dep_options),
                !.pending = (@ \ {"set_default_dep_value"})
                                \cup {"update_cit_dropdown"}]
    /\ UNCHANGED <<file, pc, data_frame, raised, boxes, saved, outputs>>

\* set_default_cit_value(options); none of the four callbacks reads its
\* output.
set_default_cit_value ==
    /\ dashboard # None
    /\ "set_default_cit_value" \in dashboard.pending
    /\ dashboard' =
            [dashboard EXCEPT
                !.cit = default_value(dashboard.cit_options),
                !.pending = @ \ {"set_default_cit_value"}]
    /\ UNCHANGED <<file, pc, data_frame, raised, boxes, saved, outputs>>

\* The user picks another option of the region dropdown: the value is an
\* input of update_dep_dropdown.
SelectRegion ==
    /\ dashboard # None
    /\ \E reg \in Range(dashboard.reg_options) \ {dashboard.reg, None} :
         dashboard' = [dashboard EXCEPT
                          !.reg = reg,
                          !.pending = @ \cup {"update_dep_dropdown"}]
    /\ UNCHANGED <<file, pc, data_frame, raised, boxes, saved, outputs>>

\* The user picks another option of the department dropdown: the value is
\* an input of update_cit_dropdown.
SelectDepartment ==
    /\ dashboard # None
    /\ \E dep \in Range(dashboard.dep_options) \ {dashboard.dep, None} :
         dashboard' = [dashboard EXCEPT
                          !.dep = dep,
                          !.pending = @ \cup {"update_cit_dropdown"}]
    /\ UNCHANGED <<file, pc, data_frame, raised, boxes, saved, outputs>>

\* The user picks another option of the city dropdown.
SelectCity ==
    /\ dashboard # None
    /\ \E cit \in Range(dashboard.cit_options) \ {dashboard.cit, None} :
         dashboard' = [dashboard EXCEPT !.cit = cit]
    /\ UNCHANGED <<file, pc, data_frame, raised, boxes, saved, outputs>>

\* The user flips the switch: the value is an input of update_dep_dropdown
\* and of update_cit_dropdown.
FlipSwitch ==
    /\ dashboard # None
    /\ \E switch \in Range(create_switch_button.options) \ {dashboard.switch} :
         dashboard' = [dashboard EXCEPT
                          !.switch = switch,
                          !.pending = @ \cup {"update_dep_dropdown",
                                              "update_cit_dropdown"}]
    /\ UNCHANGED <<file, pc, data_frame, raised, boxes, saved, outputs>>

NextDashboard ==
    \/ Construct
    \/ ProcessData
    \/ SetupLayoutHome
    \/ update_dep_dropdown
    \/ update_cit_dropdown
    \/ set_default_dep_value
    \/ set_default_cit_value
    \/ SelectRegion
    \/ SelectDepartment
    \/ SelectCity
    \/ FlipSwitch

\* The aggregation of a file of DashboardFiles, then the dashboard on its
\* output.
SpecDashboard == InitDashboard /\ [][NextDashboard]_vars

\* Every triggered callback has run.
Settled == dashboard # None /\ dashboard.pending = {}

\* The departments of the rows of a region, and the cities of the rows of a
\* department, each as the page holds it.
DepartmentsOfRegion(reg) ==
    {to_json(OutputRows[a]["Departement"]) :
        a \in {b \in DOMAIN OutputRows : to_json(OutputRows[b]["Region"]) = reg}}

CitiesOfDepartment(dep) ==
    {to_json(OutputRows[a]["cp_ville"]) :
        a \in {b \in DOMAIN OutputRows :
                  to_json(OutputRows[b]["Departement"]) = dep}}

====
